---- MODULE Spec2Model ----
(***************************************************************************)
(* Model of tools/sercap.py (tests/sercap.py is a byte-identical copy):    *)
(* the serial capture script.  One action per statement of the script,     *)
(* plus the two things the environment does on its own: the wall clock     *)
(* advancing and the device putting a byte into the port's input buffer.   *)
(* Time is counted in whole seconds; bytes are their character codes.      *)
(***************************************************************************)
EXTENDS Integers, Sequences, FiniteSets, TLC

\* ---------------------------------------------------------------- bounds
\* longest byte stream the device emits during a run
MaxStream == 3
\* latest wall-clock second at which the start instant can still be taken
MaxSetup == 1
\* seconds the clock can run past start instant + timeout_s
MaxOver == 2

\* ------------------------------------------------------ program constants
\* sentinel = "\x03"
sentinel == 3
\* timeout_s = 7
timeout_s == 7
\* s.write(" ")
WakeByte == 32
\* s.read(): pyserial's read(size=1)
ReadSize == 1

\* bytes the device can emit: the sentinel and one ordinary character
DevBytes == {sentinel, 105}

\* value of a timestamp variable that has not been assigned yet
Unset == 0 - 1

VARIABLES
    pc,                \* statement the script executes next
    reading,           \* reading (line 30)
    timeout,           \* timeout (line 31)
    s,                 \* s (line 32): "None" or "Serial"
    d,                 \* d: the result of the last s.read()
    start_reading_ts,  \* start_reading_ts (line 38)
    now_ts,            \* now_ts (line 48)
    raised,            \* an exception is propagating
    exit_status,       \* argument of sys.exit, Unset while it was not called
    clock,             \* the wall clock datetime.datetime.now() samples
    device,            \* bytes the device has yet to emit
    inbuf,             \* the port's input buffer
    ticked,            \* the clock advanced since the script last sampled it
    tx,                \* bytes written to the device
    received,          \* every byte s.read() has returned, in order
    output,            \* every byte written to sys.stdout, in order
    opens,             \* successful serial.Serial(...) constructions
    flushes,           \* completed s.flushInput() calls
    sleeps,            \* completed time.sleep(0.5) calls
    closes             \* s.close() calls

vars == <<pc, reading, timeout, s, d, start_reading_ts, now_ts, raised,
          exit_status, clock, device, inbuf, ticked, tx, received,
          output, opens, flushes, sleeps, closes>>

prog == <<reading, timeout, s, d, start_reading_ts, now_ts>>
env == <<clock, device, inbuf, ticked>>
hist == <<tx, received, output, opens, flushes, sleeps, closes>>

\* ---------------------------------------------------------------- helpers
SeqsUpTo(S, n) == UNION {[1..k -> S] : k \in 0..n}

IsPrefix(a, b) == Len(a) <= Len(b) /\ SubSeq(b, 1, Len(a)) = a

Count(x, q) == Cardinality({i \in 1..Len(q) : q[i] = x})

\* `sentinel in d` (line 45)
Contains(x, q) == \E i \in 1..Len(q) : q[i] = x

\* the deadline test with >= for >
ExpiredEarly(elapsed) == elapsed >= timeout_s

\* `elapsed.total_seconds() > timeout_s` (line 50)
Expired(elapsed) == elapsed > timeout_s

\* the guard `len(d) != 0` mistaken for `len(d) > 1`
ForwardDrop(out, chunk) == IF Len(chunk) > 1 THEN out \o chunk ELSE out

\* `if len(d) != 0: sys.stdout.write(d)` (lines 42-43)
Forward(out, chunk) == IF Len(chunk) # 0 THEN out \o chunk ELSE out

\* the two branches of the final if swapped
ExitCodeSwapped(t) == IF t THEN 0 ELSE 1

\* `if timeout: sys.exit(1) else: sys.exit(0)` (lines 57-60)
ExitCode(t) == IF t THEN 1 ELSE 0

\* a finally block that forgets the close
NeedCloseNever(h) == FALSE

\* `if s:` (line 54)
NeedClose(h) == h # "None"

\* the timeout branch without `reading = False`
ReadingAfterCheckKeep(r, elapsed) == r

\* `reading = False` under the deadline test (lines 50-51)
ReadingAfterCheck(r, elapsed) == IF Expired(elapsed) THEN FALSE ELSE r

\* the timeout branch without `timeout = True`
TimeoutAfterCheckNever(t, elapsed) == t

\* `timeout = True` under the deadline test (lines 50, 52)
TimeoutAfterCheck(t, elapsed) == IF Expired(elapsed) THEN TRUE ELSE t

\* the set-up sequence with the wake byte written after the start instant
\* is taken and the first read is issued
AfterSetupSkipWrite(p) ==
    CASE p = "open" -> "flush"
      [] p = "flush" -> "sleep"
      [] p = "sleep" -> "start"
      [] p = "write" -> "start"
      [] p = "start" -> "while"

\* statement order of the try block before the loop (lines 34-40)
AfterSetup(p) ==
    CASE p = "open" -> "flush"
      [] p = "flush" -> "sleep"
      [] p = "sleep" -> "write"
      [] p = "write" -> "start"
      [] p = "start" -> "while"

\* an `except: pass` swallowing the error before the exit statements
AfterFinallyCaught(r) == "exit"

\* after the finally block a pending exception propagates, otherwise the
\* script goes on to line 57
AfterFinally(r) == IF r THEN "done" ELSE "exit"

\* ------------------------------------------------------------------ Init
Init ==
    /\ pc = "open"
    /\ reading = TRUE
    /\ timeout = FALSE
    /\ s = "None"
    /\ d = <<>>
    /\ start_reading_ts = Unset
    /\ now_ts = Unset
    /\ raised = FALSE
    /\ exit_status = Unset
    /\ clock = 0
    /\ device \in SeqsUpTo(DevBytes, MaxStream)
    /\ inbuf = <<>>
    /\ ticked = FALSE
    /\ tx = <<>>
    /\ received = <<>>
    /\ output = <<>>
    /\ opens = 0
    /\ flushes = 0
    /\ sleeps = 0
    /\ closes = 0

\* ----------------------------------------------------------- environment
PortOpen == opens > closes

\* wall-clock time advances by one second
Tick ==
    /\ pc # "done"
    /\ IF start_reading_ts = Unset
          THEN clock < MaxSetup
          ELSE clock < start_reading_ts + timeout_s + MaxOver
    /\ clock' = clock + 1
    /\ ticked' = TRUE
    /\ UNCHANGED <<pc, prog, raised, exit_status, device, inbuf, hist>>

\* the clock crosses at most one whole second between two consecutive
\* samples the script takes: an iteration lasts little more than the 0.1 s
\* a read can block
TickOnce ==
    /\ ~ticked
    /\ Tick

\* the device emits its next byte into the open port's input buffer
Deliver ==
    /\ PortOpen
    /\ device # <<>>
    /\ inbuf' = Append(inbuf, Head(device))
    /\ device' = Tail(device)
    /\ UNCHANGED <<pc, prog, raised, exit_status, clock, ticked, hist>>

\* an exception leaves the try block: control goes to the finally block
Raise ==
    /\ raised' = TRUE
    /\ pc' = "finally"

\* ---------------------------------------------------------------- script
\* s = serial.Serial('/dev/tty.usbmodem1421', 115200, timeout=0.1)
Open ==
    /\ pc = "open"
    /\ \/ /\ s' = "Serial"
          /\ opens' = opens + 1
          /\ pc' = AfterSetup(pc)
          /\ UNCHANGED raised
       \/ /\ Raise
          /\ UNCHANGED <<s, opens>>
    /\ UNCHANGED <<reading, timeout, d, start_reading_ts, now_ts, exit_status,
                   env, tx, received, output, flushes, sleeps, closes>>

\* s.flushInput()
FlushInput ==
    /\ pc = "flush"
    /\ \/ /\ inbuf' = <<>>
          /\ flushes' = flushes + 1
          /\ pc' = AfterSetup(pc)
          /\ UNCHANGED raised
       \/ /\ Raise
          /\ UNCHANGED <<inbuf, flushes>>
    /\ UNCHANGED <<prog, exit_status, clock, device, ticked, tx, received,
                   output, opens, sleeps, closes>>

\* time.sleep(0.5)
Sleep ==
    /\ pc = "sleep"
    /\ \/ /\ sleeps' = sleeps + 1
          /\ pc' = AfterSetup(pc)
          /\ UNCHANGED raised
       \/ /\ Raise
          /\ UNCHANGED sleeps
    /\ UNCHANGED <<prog, exit_status, env, tx, received, output, opens,
                   flushes, closes>>

\* s.write(" ")
Write ==
    /\ pc = "write"
    /\ \/ /\ tx' = Append(tx, WakeByte)
          /\ pc' = AfterSetup(pc)
          /\ UNCHANGED raised
       \/ /\ Raise
          /\ UNCHANGED tx
    /\ UNCHANGED <<prog, exit_status, env, received, output, opens, flushes,
                   sleeps, closes>>

\* start_reading_ts = datetime.datetime.now()
Start ==
    /\ pc = "start"
    /\ start_reading_ts' = clock
    /\ ticked' = FALSE
    /\ pc' = AfterSetup(pc)
    /\ UNCHANGED <<reading, timeout, s, d, now_ts, raised, exit_status, clock,
                   device, inbuf, hist>>

\* while reading:
While ==
    /\ pc = "while"
    /\ pc' = IF reading THEN "read" ELSE "finally"
    /\ UNCHANGED <<prog, raised, exit_status, env, hist>>

\* d = s.read(): at most ReadSize buffered bytes, none when the per-read
\* timeout passes with the buffer empty
Read ==
    /\ pc = "read"
    /\ \/ /\ LET n == IF Len(inbuf) < ReadSize THEN Len(inbuf) ELSE ReadSize
             IN /\ d' = SubSeq(inbuf, 1, n)
                /\ inbuf' = SubSeq(inbuf, n + 1, Len(inbuf))
                /\ received' = received \o SubSeq(inbuf, 1, n)
          /\ pc' = "out"
          /\ UNCHANGED raised
       \/ /\ Raise
          /\ UNCHANGED <<d, inbuf, received>>
    /\ UNCHANGED <<reading, timeout, s, start_reading_ts, now_ts, exit_status,
                   clock, device, ticked, tx, output, opens, flushes, sleeps,
                   closes>>

\* if len(d) != 0: sys.stdout.write(d)
Out ==
    /\ pc = "out"
    /\ \/ /\ output' = Forward(output, d)
          /\ pc' = "sentinel"
          /\ UNCHANGED raised
       \/ /\ Len(d) # 0
          /\ Raise
          /\ UNCHANGED output
    /\ UNCHANGED <<prog, exit_status, env, tx, received, opens, flushes,
                   sleeps, closes>>

\* if sentinel in d: reading = False
Sentinel ==
    /\ pc = "sentinel"
    /\ reading' = IF Contains(sentinel, d) THEN FALSE ELSE reading
    /\ pc' = "now"
    /\ UNCHANGED <<timeout, s, d, start_reading_ts, now_ts, raised,
                   exit_status, env, hist>>

\* now_ts = datetime.datetime.now()
Now ==
    /\ pc = "now"
    /\ now_ts' = clock
    /\ ticked' = FALSE
    /\ pc' = "check"
    /\ UNCHANGED <<reading, timeout, s, d, start_reading_ts, raised,
                   exit_status, clock, device, inbuf, hist>>

\* elapsed = now_ts - start_reading_ts
\* if elapsed.total_seconds() > timeout_s: reading = False; timeout = True
Check ==
    /\ pc = "check"
    /\ LET elapsed == now_ts - start_reading_ts
       IN /\ reading' = ReadingAfterCheck(reading, elapsed)
          /\ timeout' = TimeoutAfterCheck(timeout, elapsed)
    /\ pc' = "while"
    /\ UNCHANGED <<s, d, start_reading_ts, now_ts, raised, exit_status, env,
                   hist>>

\* finally: if s: s.close()
Finally ==
    /\ pc = "finally"
    /\ closes' = IF NeedClose(s) THEN closes + 1 ELSE closes
    /\ pc' = AfterFinally(raised)
    /\ UNCHANGED <<prog, raised, exit_status, env, tx, received, output,
                   opens, flushes, sleeps>>

\* if timeout: sys.exit(1) else: sys.exit(0)
Exit ==
    /\ pc = "exit"
    /\ exit_status' = ExitCode(timeout)
    /\ pc' = "done"
    /\ UNCHANGED <<prog, raised, env, hist>>

Program ==
    \/ Open
    \/ FlushInput
    \/ Sleep
    \/ Write
    \/ Start
    \/ While
    \/ Read
    \/ Out
    \/ Sentinel
    \/ Now
    \/ Check
    \/ Finally
    \/ Exit

Next ==
    \/ Program
    \/ Tick
    \/ Deliver

Spec == Init /\ [][Next]_vars

\* the same script with the clock crossing at most one second per iteration
TimedNext ==
    \/ Program
    \/ TickOnce
    \/ Deliver

TimedSpec == Init /\ [][TimedNext]_vars

\* the interpreter always executes the next statement, and time passes
LiveSpec == Spec /\ WF_vars(Program) /\ WF_vars(Tick)

\* ------------------------------------------------------------ properties
\* the run ended through sys.exit, no exception having propagated
Exited == pc = "done" /\ ~raised

\* some s.read() returned the sentinel
SentinelRead == Count(sentinel, received) > 0

\* seconds from the start instant to the last clock sample of the loop
Elapsed == now_ts - start_reading_ts

LoopPcs == {"while", "read", "out", "sentinel", "now", "check"}

C2_SentinelAlwaysExitsZero ==
    Exited =>
        /\ (exit_status = 1 => (~SentinelRead /\ Elapsed > timeout_s))
        /\ (SentinelRead => exit_status = 0)

\* C3: a run in which no sentinel is read exits with status 1, after more
\* than timeout_s seconds, and standard output is exactly the bytes read.
C3_TimeoutFailure ==
    (Exited /\ ~SentinelRead) =>
        /\ exit_status = 1
        /\ Elapsed > timeout_s
        /\ output = received
        /\ Count(sentinel, output) = 0

C3_Witness ==
    /\ Exited
    /\ exit_status = 1
    /\ Len(output) = 2
    /\ ~SentinelRead

\* the silent device: a timeout with nothing on standard output
C3_WitnessSilent ==
    /\ Exited
    /\ exit_status = 1
    /\ output = <<>>

\* C4: the port is closed at most once and only if it was opened; by the time
\* the finally block is left (normally or with an exception propagating) an
\* opened port has been closed exactly once, and a failed open leaves close
\* uncalled.
C4_ClosedExactlyOnce ==
    /\ closes <= opens
    /\ opens <= 1
    /\ (pc \in {"exit", "done"} => closes = opens)
    /\ (pc \notin {"exit", "done"} => closes = 0)
    /\ (s = "None" <=> opens = 0)

C4_Witness ==
    /\ pc = "done"
    /\ raised
    /\ opens = 1
    /\ closes = 1
    /\ received # <<>>

\* C5: standard output is always a prefix of the bytes read, and whenever
\* the next read is issued every byte read so far has been forwarded.
C5_OutputIsPrefix ==
    /\ IsPrefix(output, received)
    /\ (pc \in (LoopPcs \ {"out"}) => output = received)
    /\ (pc = "out" => received = output \o d)
    /\ (Exited => output = received)

C5_Witness ==
    /\ pc = "read"
    /\ Len(output) = 2
    /\ d = <<>>

\* C7: open, flush, settle delay, wake byte and start instant happen in this
\* order, each once, before the first read; nothing is read or written to
\* standard output before the wake byte is on the wire; the start instant is
\* never reassigned; a run whose first byte is the sentinel, read within the
\* window, exits 0 after the full set-up.
C7_SetupOrderInv ==
    /\ opens <= 1 /\ flushes <= opens /\ sleeps <= flushes /\ Len(tx) <= sleeps
    /\ (tx # <<>> => tx = <<WakeByte>>)
    /\ (start_reading_ts # Unset => tx = <<WakeByte>>)
    /\ ((pc \in LoopPcs \/ received # <<>> \/ output # <<>> \/ now_ts # Unset)
          => /\ opens = 1 /\ flushes = 1 /\ sleeps = 1
             /\ tx = <<WakeByte>>
             /\ start_reading_ts # Unset)
    /\ ((Exited /\ received = <<sentinel>> /\ Elapsed <= timeout_s)
          => /\ exit_status = 0
             /\ sleeps = 1
             /\ tx = <<WakeByte>>)

C7_StartFixed ==
    /\ start_reading_ts # Unset => start_reading_ts' = start_reading_ts
    /\ tx # <<>> => tx' = tx

C8_RaisedInv ==
    raised => /\ pc \in {"finally", "done"}
              /\ exit_status = Unset
              /\ ~timeout

C8_RaisedStep ==
    raised =>
        /\ raised'
        /\ <<tx, received, output, d>>' = <<tx, received, output, d>>
        /\ exit_status' = exit_status
        /\ pc' # pc => /\ pc = "finally"
                       /\ pc' = "done"
                       /\ closes' = IF opens = 1 THEN closes + 1 ELSE closes

\* C8: a raised exception is never caught: the state constraint holds
\* always and every step after the raise is the finally block's close.
C8_ErrorsPropagate == []C8_RaisedInv /\ [][C8_RaisedStep]_vars

C8_Witness ==
    /\ raised
    /\ pc = "done"
    /\ opens = 1
    /\ closes = 1
    /\ Len(received) = 2
    /\ Len(output) = 1

\* C9: every run terminates, a run without an exception with exit status 0
\* or 1.
C9_Terminates == <>(pc = "done" /\ (raised \/ exit_status \in {0, 1}))

C9_Witness ==
    /\ Exited
    /\ timeout
    /\ exit_status = 1
    /\ Len(received) = MaxStream
    /\ ~SentinelRead

\* C10: the timeout flag is set only by the deadline test of an iteration
\* whose elapsed time is strictly greater than timeout_s; while no sentinel
\* has been read and the last sample is at most timeout_s the loop reads
\* again; once reading is false no read is issued.
C10_Inv ==
    /\ (timeout => Elapsed > timeout_s)
    /\ (pc = "read" => reading /\ ~timeout)
    /\ ((pc = "while" /\ ~SentinelRead /\ (now_ts = Unset \/ Elapsed <= timeout_s))
          => reading)

C10_Step ==
    /\ timeout' # timeout =>
          (timeout' /\ pc = "check" /\ Elapsed > timeout_s /\ ~reading')
    /\ ~reading => (~reading' /\ received' = received /\ pc' # "read")

\* C10: the timeout never fires early, the loop keeps reading up to and
\* including an elapsed time of timeout_s, and reading never resumes.
C10_NoEarlyTimeout == []C10_Inv /\ [][C10_Step]_vars

C10_Witness ==
    /\ pc = "read"
    /\ Elapsed = timeout_s
    /\ ~SentinelRead

====
